---- MODULE Spec2Model ----
(***************************************************************************)
(* A model of kxss (src/kxss.go): the three-stage reflection / character   *)
(* survival pipeline, its worker pools, and the probe functions            *)
(* checkReflected, checkAppend and doRequestWithRetries.                   *)
(*                                                                         *)
(* Go strings are modelled as sequences of one-character strings, so that  *)
(* strings.Contains and strings.HasPrefix are computed, not assumed.       *)
(***************************************************************************)
EXTENDS Integers, Sequences, FiniteSets, Bags, TLC

VARIABLES
    call,          \* the probe function being applied: its inputs and, once applied, its results
    numWorkers,    \* the -w flag
    server,        \* how the scanned host answers
    input,         \* the lines of the input and how many the scanner has returned
    inputErr,      \* whether the scanner ends with a read error instead of EOF
    mainPc,        \* where main is
    initialChecks, \* the buffered channel's queue
    closed,        \* which channels are closed
    wg,            \* each pool's WaitGroup counter
    workers,       \* each pool's worker goroutines: position and locals
    out,           \* what was written to the output file
    results,       \* main's results slice
    stderr,        \* what was written to os.Stderr
    errlog,        \* the errors the handlers got from the probe functions
    handled        \* the bag of the handler calls made so far

pipeVars == <<numWorkers, server, input, inputErr, mainPc, initialChecks, closed, wg,
              workers, out, results, stderr, errlog, handled>>

vars == <<call, numWorkers, server, input, inputErr, mainPc, initialChecks, closed, wg,
          workers, out, results, stderr, errlog, handled>>

(***************************************************************************)
(* Strings                                                                 *)
(***************************************************************************)

\* strings.Contains(s, substr)
Contains(s, substr) ==
    \E i \in 0..(Len(s) - Len(substr)) : SubSeq(s, i + 1, i + Len(substr)) = substr

\* strings.HasPrefix(s, prefix)
HasPrefix(s, prefix) ==
    Len(s) >= Len(prefix) /\ SubSeq(s, 1, Len(prefix)) = prefix

DigitChars == <<"0", "1", "2", "3", "4", "5", "6", "7", "8", "9">>

\* resp.Status as net/http fills it in: the three digits of the status code
\* come first ("302 Found").
StatusLine(code) ==
    << DigitChars[((code \div 100) % 10) + 1],
       DigitChars[((code \div 10) % 10) + 1],
       DigitChars[(code % 10) + 1] >>

Min(a, b) == IF a <= b THEN a ELSE b

(***************************************************************************)
(* Errors, URLs and query strings                                          *)
(***************************************************************************)

\* A Go error value is a record; Nil is the nil error.
Nil == [kind |-> "nil"]

\* fmt.Errorf(format, args...): the error carries what the format prints.
Errorf(format, args) == [kind |-> format, args |-> args]

ParseErr == [kind |-> "parse"]

\* The failures httpClient.Do reports (err # nil, resp = nil).
TransportErrs == { [kind |-> "timeout"], [kind |-> "connection refused"] }

\* A URL string is the record of what url.Parse makes of it: whether it
\* parses at all, its path, and its query as the sequence of key=value
\* pairs in the order written.  Percent-coding is transparent: the server
\* decodes what Encode escaped.
MkURL(path, query) == [malformed |-> FALSE, path |-> path, query |-> query]

MalformedURL == [malformed |-> TRUE, path |-> "%zz", query |-> <<>>]

\* url.Parse(targetURL)
Parse(targetURL) ==
    IF targetURL.malformed THEN [u |-> targetURL, err |-> ParseErr]
    ELSE [u |-> targetURL, err |-> Nil]

QueryKeys(u) == { u.query[i].k : i \in DOMAIN u.query }

\* u.Query(): url.Values, a map from key to the values given for it, in order.
Query(u) ==
    [ key \in QueryKeys(u) |->
        LET sel == SelectSeq(u.query, LAMBDA p : p.k = key)
        IN  [ i \in 1..Len(sel) |-> sel[i].v ] ]

\* url.Values.Get: the first value of the key, "" when there is none.
Get(qs, key) ==
    IF key \in DOMAIN qs /\ Len(qs[key]) > 0 THEN qs[key][1] ELSE <<>>

\* url.Values.Set: the key's values are replaced by the single value.
Set(qs, key, value) ==
    [ k \in (DOMAIN qs) \cup {key} |-> IF k = key THEN <<value>> ELSE qs[k] ]

\* The keys the model uses, in the order sort.Strings puts them.
KeyOrder == <<"", "id", "pp", "x", "y">>

RECURSIVE EncodeFrom(_, _)
EncodeFrom(qs, keys) ==
    IF keys = <<>> THEN <<>>
    ELSE LET key == Head(keys)
         IN  (IF key \in DOMAIN qs
              THEN [ i \in 1..Len(qs[key]) |-> [k |-> key, v |-> qs[key][i]] ]
              ELSE <<>>)
             \o EncodeFrom(qs, Tail(keys))

\* url.Values.Encode: "sorted by key".
Encode(qs) == EncodeFrom(qs, KeyOrder)

\* checkAppend's test URL: the parameter's first value with the suffix
\* appended, the query re-encoded.
AppendURL(u, param, suffix) ==
    LET qs  == Query(u)
        val == Get(qs, param)
    IN  [u EXCEPT !.query = Encode(Set(qs, param, val \o suffix))]

(***************************************************************************)
(* HTTP                                                                    *)
(***************************************************************************)

NilResp == [nil |-> TRUE]

\* What a response carries: status, the Content-Type header ("" when
\* absent), the body as the server sent it and the error reading it ends
\* with (Nil when it reads to the end).  BodyNil is resp.Body == nil, which
\* http.Client never returns with a nil error.
MkResp(code, ct, body, readErr) ==
    [StatusCode |-> code, Status |-> StatusLine(code), ContentType |-> ct,
     BodyNil |-> FALSE, Body |-> body, readErr |-> readErr]

\* One httpClient.Do: a response, or a transport failure.
DoOK(resp) == [resp |-> resp, err |-> Nil]
DoFail(err) == [resp |-> NilResp, err |-> err]

BodyLimit == 1048576

\* io.ReadAll(io.LimitReader(resp.Body, 1024*1024))
ReadAll(resp) ==
    IF resp.readErr # Nil THEN [b |-> <<>>, err |-> resp.readErr]
    ELSE [b |-> SubSeq(resp.Body, 1, Min(BodyLimit, Len(resp.Body))), err |-> Nil]

\* http.NewRequest: fails on a URL that does not parse.
NewRequest(method, urlStr) ==
    IF urlStr.malformed THEN [req |-> NilResp, err |-> ParseErr]
    ELSE [req |-> [method |-> method, url |-> urlStr], err |-> Nil]

\* time.Sleep(time.Second * time.Duration(retries+1)), in seconds
Backoff_constant(retries) == 1

Backoff(retries) == retries + 1

\* The loop of doRequestWithRetries.  net[i] is what the i-th httpClient.Do
\* of this call meets.  `err` is the function-level err: inside the loop
\* `req, err := http.NewRequest(...)` declares a new err, and the result of
\* httpClient.Do is assigned to that one, so the function-level err is never
\* assigned.  attempts and sleeps record the calls of httpClient.Do and of
\* time.Sleep.
RECURSIVE RetryLoop(_, _, _, _, _, _, _)
RetryLoop(method, urlStr, net, maxRetries, retries, err, sleeps) ==
    IF ~(retries < maxRetries)
    THEN [resp |-> NilResp,
          err |-> Errorf("failed after %d retries: %v",
                         [retries |-> maxRetries, cause |-> err]),
          attempts |-> retries, sleeps |-> sleeps]
    ELSE LET nr == NewRequest(method, urlStr)
         IN  IF nr.err # Nil
             THEN [resp |-> NilResp, err |-> nr.err,
                   attempts |-> retries, sleeps |-> sleeps]
             ELSE LET do == net[retries + 1]
                  IN  IF do.err = Nil /\ do.resp # NilResp
                      THEN [resp |-> do.resp, err |-> Nil,
                            attempts |-> retries + 1, sleeps |-> sleeps]
                      ELSE RetryLoop(method, urlStr, net, maxRetries, retries + 1,
                                     err, Append(sleeps, Backoff(retries)))

doRequestWithRetries(method, urlStr, net, maxRetries) ==
    RetryLoop(method, urlStr, net, maxRetries, 0, Nil, <<>>)

MaxRetries == 3

(***************************************************************************)
(* checkReflected                                                          *)
(***************************************************************************)

ValueReflected_nonEmptyOnly(body, v) == v # <<>> /\ Contains(body, v)

\* !strings.Contains(body, v) -> continue
ValueReflected(body, v) == Contains(body, v)

\* for key, vv := range u.Query() { for _, v := range vv { ... } }
\* `order` is the order in which this range visits the map's keys.
RECURSIVE RangeQuery(_, _, _, _)
RangeQuery(qs, body, order, reported) ==
    IF order = <<>> THEN reported
    ELSE LET key  == Head(order)
             hits == SelectSeq(qs[key], LAMBDA v : ValueReflected(body, v))
         IN  RangeQuery(qs, body, Tail(order),
                        reported \o [ i \in 1..Len(hits) |-> key ])

html == <<"h", "t", "m", "l">>

SkipResponse_noContentTypeGate(resp) == HasPrefix(resp.Status, <<"3">>)

\* The two early returns on the response: a 3xx status, or a Content-Type
\* that is present and does not contain "html".
SkipResponse(resp) ==
    \/ HasPrefix(resp.Status, <<"3">>)
    \/ (resp.ContentType # <<>> /\ ~Contains(resp.ContentType, html))

checkReflected(targetURL, net, order) ==
    LET r == doRequestWithRetries("GET", targetURL, net, MaxRetries)
    IN  IF r.err # Nil THEN [out |-> <<>>, err |-> r.err]
        ELSE IF r.resp.BodyNil
        THEN [out |-> <<>>, err |-> Errorf("nil response body", <<>>)]
        ELSE LET rd == ReadAll(r.resp)
             IN  IF rd.err # Nil THEN [out |-> <<>>, err |-> rd.err]
                 ELSE IF SkipResponse(r.resp) THEN [out |-> <<>>, err |-> Nil]
                 ELSE LET p == Parse(targetURL)
                      IN  IF p.err # Nil THEN [out |-> <<>>, err |-> p.err]
                          ELSE [out |-> RangeQuery(Query(p.u), rd.b, order, <<>>),
                                err |-> Nil]

(***************************************************************************)
(* checkAppend                                                             *)
(***************************************************************************)

dbErrorPatterns ==
    [ PostgreSQL |->
        << <<"P","S","Q","L","E","x","c","e","p","t","i","o","n">>,
           <<"E","R","R","O","R",":">>,
           <<"u","n","t","e","r","m","i","n","a","t","e","d"," ","q","u","o","t","e","d"," ","s","t","r","i","n","g">>,
           <<"s","y","n","t","a","x"," ","e","r","r","o","r"," ","a","t"," ","o","r"," ","n","e","a","r">> >>,
      Oracle |->
        << <<"O","R","A","-">>,
           <<"P","L","S","-">>,
           <<"O","R","A","-","0","0","9","3","3">>,
           <<"O","R","A","-","0","1","7","5","6">> >>,
      MSSQL |->
        << <<"S","Q","L","E","x","c","e","p","t","i","o","n">>,
           <<"I","n","c","o","r","r","e","c","t"," ","s","y","n","t","a","x"," ","n","e","a","r">>,
           <<"U","n","c","l","o","s","e","d"," ","q","u","o","t","a","t","i","o","n"," ","m","a","r","k">> >>,
      Generic |->
        << <<"S","Q","L"," ","s","y","n","t","a","x">> >> ]

\* The loop over dbErrorPatterns: isError after it.
MatchesDbError(bodyStr) ==
    \E label \in DOMAIN dbErrorPatterns :
        \E i \in DOMAIN dbErrorPatterns[label] :
            Contains(bodyStr, dbErrorPatterns[label][i])

ServerErrorStatus == 500

BothServerErrors_either(respStatusCode, baseStatusCode) ==
    respStatusCode >= ServerErrorStatus \/ baseStatusCode >= ServerErrorStatus

\* resp.StatusCode >= 500 && baseStatusCode >= 500
BothServerErrors(respStatusCode, baseStatusCode) ==
    respStatusCode >= ServerErrorStatus /\ baseStatusCode >= ServerErrorStatus

SuffixReflected_nonEmptyBody(bodyStr, suffix) == bodyStr # <<>>

\* if strings.Contains(bodyStr, suffix) { return true, isError, nil }
SuffixReflected(bodyStr, suffix) == Contains(bodyStr, suffix)

checkAppend(targetURL, param, suffix, baseNet, testNet) ==
    LET fail(e) == [reflected |-> FALSE, isError |-> FALSE, err |-> e]
        p == Parse(targetURL)
    IN  IF p.err # Nil THEN fail(p.err)
        ELSE
        LET u == AppendURL(p.u, param, suffix)
            baseR == doRequestWithRetries("GET", targetURL, baseNet, MaxRetries)
        IN  IF baseR.err # Nil THEN fail(baseR.err)
            ELSE IF baseR.resp.BodyNil
            THEN fail(Errorf("nil base response body", <<>>))
            ELSE
            LET baseStatusCode == baseR.resp.StatusCode
                r == doRequestWithRetries("GET", u, testNet, MaxRetries)
            IN  IF r.err # Nil THEN fail(r.err)
                ELSE IF r.resp.BodyNil
                THEN fail(Errorf("nil response body", <<>>))
                ELSE
                LET rd == ReadAll(r.resp)
                IN  IF rd.err # Nil THEN fail(rd.err)
                    ELSE
                    LET bodyStr == rd.b
                        isError == MatchesDbError(bodyStr)
                                   /\ ~BothServerErrors(r.resp.StatusCode, baseStatusCode)
                    IN  IF SkipResponse(r.resp)
                        THEN [reflected |-> FALSE, isError |-> isError, err |-> Nil]
                        ELSE [reflected |-> SuffixReflected(bodyStr, suffix),
                              isError |-> isError, err |-> Nil]

(***************************************************************************)
(* Inputs of the probe functions                                           *)
(***************************************************************************)

Range(s) == { s[i] : i \in DOMAIN s }

\* The orders in which a range over a map with these keys can visit them.
Perms(S) ==
    { s \in [1..Cardinality(S) -> S] : \A i, j \in DOMAIN s : i # j => s[i] # s[j] }

Pair(key, value) == [k |-> key, v |-> value]

U_none     == MkURL("/page", <<>>)
U_x1       == MkURL("/page", << Pair("x", <<"1">>) >>)
U_pp       == MkURL("/hpp/", << Pair("pp", <<>>) >>)
U_yx       == MkURL("/page", << Pair("y", <<"a", "b">>), Pair("x", <<"1">>) >>)
U_xx       == MkURL("/page", << Pair("x", <<"1">>), Pair("x", <<"a", "b">>) >>)
U_emptykey == MkURL("/page", << Pair("", <<"1">>) >>)

URLs == { U_none, U_x1, U_pp, U_yx, U_xx, U_emptykey, MalformedURL }

marker ==
    <<"i","y","3","j","4","h","2","3","4","h","j","b","2","3","2","3","4">>

\* The grave accent, which a TLA+ string cannot hold, by its code point.
Backtick == "U+0060"

charset ==
    << <<"\"">>, <<"'">>, <<"<">>, <<">">>, <<"$">>, <<"|">>, <<"(">>, <<")">>,
       <<Backtick>>, <<":">>, <<";">>, <<"{">>, <<"}">> >>

text_html == <<"t","e","x","t","/","h","t","m","l">>
application_json == <<"a","p","p","l","i","c","a","t","i","o","n","/","j","s","o","n">>

ContentTypes == { <<>>, text_html, application_json }

StatusCodes == { 200, 302, 404, 500 }

\* What response bodies are put together from: query values, a fingerprint
\* and a near miss of it, the marker, a probe character.
BodyPieces ==
    { <<"1">>, <<"a", "b">>, <<"O","R","A","-">>, <<"O","R","A">>,
      marker, <<"<">>, <<"'">> }

MaxBodyPieces == 2

RECURSIVE BodiesOf(_)
BodiesOf(n) ==
    IF n = 0 THEN { <<>> }
    ELSE LET shorter == BodiesOf(n - 1)
         IN  shorter \cup { b \o p : b \in shorter, p \in BodyPieces }

Bodies == BodiesOf(MaxBodyPieces)

ReadErr == [kind |-> "unexpected EOF"]

Responses ==
    { MkResp(c, ct, b, Nil) : c \in StatusCodes, ct \in ContentTypes, b \in Bodies }
    \cup { MkResp(c, text_html, <<"1">>, ReadErr) : c \in StatusCodes }

Timeout == [kind |-> "timeout"]

\* What the three attempts of one call can meet: a response at once, a
\* response after failures, or failures only.
NetOK(resp)      == << DoOK(resp), DoFail(Timeout), DoFail(Timeout) >>
NetRetryOK(resp) == << DoFail(Timeout), DoFail(Timeout), DoOK(resp) >>
NetDown          == << DoFail(Timeout), DoFail(Timeout), DoFail(Timeout) >>

Nets(resps) ==
    { NetOK(r) : r \in resps } \cup { NetDown }
    \cup { NetRetryOK(MkResp(200, text_html, <<"1">>, Nil)) }

NoRet == [none |-> TRUE]

ReflectedCalls ==
    UNION { { [fn |-> "checkReflected", phase |-> "ready",
               in |-> [targetURL |-> u, net |-> n, order |-> o], ret |-> NoRet]
              : n \in Nets(Responses), o \in Perms(QueryKeys(u)) }
            : u \in URLs }

AppendSuffixes == { marker, <<"'">>, <<"<">> }

BaseResponses == { MkResp(c, text_html, <<"1">>, Nil) : c \in StatusCodes }

AppendCalls ==
    { [fn |-> "checkAppend", phase |-> "ready",
       in |-> [targetURL |-> u, param |-> p, suffix |-> s, baseNet |-> bn, testNet |-> tn],
       ret |-> NoRet]
      : u \in { U_x1, U_yx, MalformedURL }, p \in { "x" }, s \in AppendSuffixes,
        bn \in Nets(BaseResponses), tn \in Nets(Responses) }

AttemptOutcomes ==
    { DoOK(MkResp(200, text_html, <<"1">>, Nil)), DoOK(MkResp(500, <<>>, <<>>, Nil)) }
    \cup { DoFail(e) : e \in TransportErrs }

RequestCalls ==
    { [fn |-> "doRequestWithRetries", phase |-> "ready",
       in |-> [urlStr |-> u, net |-> n], ret |-> NoRet]
      : u \in { U_x1, U_none, MalformedURL }, n \in [1..MaxRetries -> AttemptOutcomes] }

(***************************************************************************)
(* The scanned host                                                        *)
(***************************************************************************)

\* A host answers a request from its query alone: it echoes the query's
\* values after `page`, with the characters in `filtered` removed, unless a
\* value holds a character of `sqlChars`, which gets the error page.  A
\* host that is not `up`, or a request with a character of `dropped` in a
\* value, gets no answer: every attempt times out.
MkServer(status, errStatus, ct, echo, page, filtered, sqlChars, dropped, up) ==
    [status |-> status, errStatus |-> errStatus, ct |-> ct, echo |-> echo,
     page |-> page, filtered |-> filtered, sqlChars |-> sqlChars,
     dropped |-> dropped, up |-> up]

RECURSIVE Flatten(_)
Flatten(ss) == IF ss = <<>> THEN <<>> ELSE Head(ss) \o Flatten(Tail(ss))

ORA_00933 == <<"O","R","A","-","0","0","9","3","3">>
SQL_syntax == <<"S","Q","L"," ","s","y","n","t","a","x">>

QueryChars(u) == Flatten([ i \in DOMAIN u.query |-> u.query[i].v ])

Respond(srv, u) ==
    LET vals == QueryChars(u)
    IN  IF \E i \in DOMAIN vals : vals[i] \in srv.sqlChars
        THEN MkResp(srv.errStatus, srv.ct, ORA_00933, Nil)
        ELSE MkResp(srv.status, srv.ct,
                    srv.page \o (IF srv.echo
                                 THEN SelectSeq(vals, LAMBDA ch : ch \notin srv.filtered)
                                 ELSE <<>>),
                    Nil)

CharsetChars == { charset[i][1] : i \in DOMAIN charset }

S_echo      == MkServer(200, 200, text_html, TRUE, <<>>, {}, {}, {}, TRUE)
S_mixed     == MkServer(200, 500, text_html, TRUE, <<>>, {"\"", ">"}, {"'"}, {"<"}, TRUE)
S_filterAll == MkServer(200, 200, text_html, TRUE, <<>>, CharsetChars, {}, {}, TRUE)
S_sql500    == MkServer(500, 500, text_html, TRUE, <<>>, {}, {"'"}, {}, TRUE)
S_static    == MkServer(200, 200, <<>>, FALSE, SQL_syntax, {}, {}, {}, TRUE)
S_silent    == MkServer(200, 200, text_html, FALSE, <<>>, {}, {}, {}, TRUE)
S_json      == MkServer(200, 200, application_json, TRUE, <<>>, {}, {}, {}, TRUE)
S_redirect  == MkServer(302, 302, text_html, TRUE, <<>>, {}, {}, {}, TRUE)
S_wafMarker == MkServer(200, 200, text_html, TRUE, <<>>, {}, {}, {"j"}, TRUE)
S_down      == MkServer(200, 200, text_html, TRUE, <<>>, {}, {}, {}, FALSE)

Servers ==
    { S_echo, S_mixed, S_filterAll, S_sql500, S_static, S_silent, S_json,
      S_redirect, S_wafMarker, S_down }

(***************************************************************************)
(* The pipeline: main, makePool and the three handlers                     *)
(***************************************************************************)

MaxWorkers == 2
MaxInput == 2
MaxPairs == 2

Stages == 1..3

Chans == { "initialChecks", "appendChecks", "charChecks", "done" }

\* makePool(input, numWorkers, fn) returns output: the channels of each pool.
InChan(s)  == <<"initialChecks", "appendChecks", "charChecks">>[s]
OutChan(s) == <<"appendChecks", "charChecks", "done">>[s]

NoItem == [none |-> TRUE]

paramCheck(url, param) == [url |-> url, param |-> param]

NoResult == [none |-> TRUE]

\* A worker goroutine of makePool: pc is "recv" at `for c := range input`,
\* "run" inside fn, "send" at `output <- ...`, "append" between the print
\* and the append of a Result, "done" after wg.Done().  The other fields
\* are fn's locals: c, what is left to send, the Result, and the results
\* slice as read by `append(results, result)`.
Idle ==
    [pc |-> "recv", c |-> NoItem, pending |-> <<>>, result |-> NoResult, seen |-> <<>>]

InputURLs == { U_none, U_x1, U_pp, U_yx, U_xx, U_emptykey, MalformedURL }

RECURSIVE Pairs(_)
Pairs(lines) ==
    IF lines = <<>> THEN 0 ELSE Len(Head(lines).query) + Pairs(Tail(lines))

\* The input files: at most MaxInput lines holding at most MaxPairs query
\* parameters between them.
Inputs ==
    { lines \in UNION { [1..n -> InputURLs] : n \in 0..MaxInput } :
        Pairs(lines) <= MaxPairs }

Init ==
    /\ call = [fn |-> "none", phase |-> "done", in |-> <<>>, ret |-> NoRet]
    /\ numWorkers \in 1..MaxWorkers
    /\ server \in Servers
    /\ input \in { [lines |-> l, pos |-> 0] : l \in Inputs }
    /\ inputErr \in BOOLEAN
    /\ mainPc = "scan"
    /\ initialChecks = <<>>
    /\ closed = [ch \in Chans |-> FALSE]
    /\ wg = [s \in Stages |-> numWorkers]
    /\ workers = [s \in Stages |-> [i \in 1..numWorkers |-> Idle]]
    /\ out = <<>>
    /\ results = <<>>
    /\ stderr = <<>>
    /\ errlog = {}
    /\ handled = EmptyBag

\* os.Exit(1) ends every goroutine.
Alive == mainPc # "exit1"

Capacity_unbuffered(n) == 0

\* make(chan paramCheck, numWorkers): the items initialChecks can hold.
Capacity(n) == n

\* initialChecks <- paramCheck{url: scanner.Text()}: blocks while the
\* buffer holds numWorkers items.
MainSubmit ==
    /\ mainPc = "scan" /\ input.pos < Len(input.lines)
    /\ Len(initialChecks) < Capacity(numWorkers)
    /\ initialChecks' = Append(initialChecks, paramCheck(input.lines[input.pos + 1], ""))
    /\ input' = [input EXCEPT !.pos = @ + 1]
    /\ UNCHANGED <<call, numWorkers, server, inputErr, mainPc, closed, wg, workers,
                   out, results, stderr, errlog, handled>>

\* scanner.Scan() returns false: on a read error main exits with status 1,
\* else it closes initialChecks and waits on done.
MainScanEnd ==
    /\ mainPc = "scan" /\ input.pos = Len(input.lines)
    /\ IF inputErr
       THEN /\ stderr' = Append(stderr, [msg |-> "error reading input"])
            /\ mainPc' = "exit1"
            /\ UNCHANGED closed
       ELSE /\ closed' = [closed EXCEPT !["initialChecks"] = TRUE]
            /\ mainPc' = "wait"
            /\ UNCHANGED stderr
    /\ UNCHANGED <<call, numWorkers, server, input, inputErr, initialChecks, wg, workers,
                   out, results, errlog, handled>>

NoneFound == [msg |-> "No vulnerabilities found."]

\* <-done returns once done is closed (nothing is ever sent on it); then
\* the closing message when results is empty.
MainDone ==
    /\ mainPc = "wait" /\ closed["done"]
    /\ mainPc' = "finished"
    /\ out' = IF Len(results) = 0 THEN Append(out, NoneFound) ELSE out
    /\ UNCHANGED <<call, numWorkers, server, input, inputErr, initialChecks, closed, wg,
                   workers, results, stderr, errlog, handled>>

\* fn(c, output) is entered.
Entered(s, c) == [Idle EXCEPT !.pc = "run", !.c = c]

WgDone_forgotten(n) == n

\* wg.Done()
WgDone(n) == n - 1

Dequeue_peek(q) == q

\* A receive takes the item out of the channel's buffer.
Dequeue(q) == Tail(q)

\* `for c := range input` of a stage-1 worker: the next buffered item.
Receive1(i) ==
    /\ Alive
    /\ workers[1][i].pc = "recv"
    /\ initialChecks # <<>>
    /\ workers' = [workers EXCEPT ![1][i] = Entered(1, Head(initialChecks))]
    /\ initialChecks' = Dequeue(initialChecks)
    /\ UNCHANGED <<call, numWorkers, server, input, inputErr, mainPc, closed, wg,
                   out, results, stderr, errlog, handled>>

\* `for c := range input` ends when input is closed and empty; wg.Done().
WorkerExit(s, i) ==
    /\ Alive
    /\ workers[s][i].pc = "recv"
    /\ closed[InChan(s)]
    /\ s = 1 => initialChecks = <<>>
    /\ workers' = [workers EXCEPT ![s][i] = [Idle EXCEPT !.pc = "done"]]
    /\ wg' = [wg EXCEPT ![s] = WgDone(wg[s])]
    /\ UNCHANGED <<call, numWorkers, server, input, inputErr, mainPc, initialChecks, closed,
                   out, results, stderr, errlog, handled>>

WaitOver_oneLeft(n) == n <= 1

\* wg.Wait() returns when the counter is zero.
WaitOver(n) == n = 0

\* go func() { wg.Wait(); close(output) }()
PoolClose(s) ==
    /\ Alive
    /\ WaitOver(wg[s])
    /\ ~closed[OutChan(s)]
    /\ closed' = [closed EXCEPT ![OutChan(s)] = TRUE]
    /\ UNCHANGED <<call, numWorkers, server, input, inputErr, mainPc, initialChecks, wg,
                   workers, out, results, stderr, errlog, handled>>

\* output <- item on an unbuffered channel: the sender at `output <-` and a
\* worker of the next pool at `range input` meet.
Send(s, i, j) ==
    /\ Alive
    /\ s \in 1..2
    /\ workers[s][i].pc = "send"
    /\ workers[s + 1][j].pc = "recv"
    /\ ~closed[OutChan(s)]
    /\ LET w    == workers[s][i]
           rest == Tail(w.pending)
       IN  workers' =
             [workers EXCEPT
                ![s][i] = IF rest = <<>> THEN Idle ELSE [w EXCEPT !.pending = rest],
                ![s + 1][j] = Entered(s + 1, Head(w.pending))]
    /\ UNCHANGED <<call, numWorkers, server, input, inputErr, mainPc, initialChecks, closed,
                   wg, out, results, stderr, errlog, handled>>

\* What the attempts of a request for u meet: the host's answer, or
\* nothing but timeouts.
NetFor(srv, u) ==
    IF ~srv.up \/ (\E i \in DOMAIN QueryChars(u) : QueryChars(u)[i] \in srv.dropped)
    THEN NetDown
    ELSE NetOK(Respond(srv, u))

\* The items a handler can be given: a line of the input, or one of its
\* parameters.
Items ==
    UNION { { paramCheck(u, k) : k \in { "" } \cup QueryKeys(u) } : u \in InputURLs }

\* What checkReflected can return for an item of the first pool, one value
\* for each order of the range over the query; a function of the host and
\* the item, computed once for each.
reflections ==
    LET f == [ srv \in Servers |->
                [ c \in Items |->
                    { checkReflected(c.url, NetFor(srv, c.url), order)
                      : order \in Perms(QueryKeys(c.url)) } ] ]
    IN  IF f = f THEN f ELSE f

\* What checkAppend returns for an item of the second pool, likewise.
markerProbes ==
    LET f == [ srv \in Servers |->
                [ c \in Items |->
                    checkAppend(c.url, c.param, marker, NetFor(srv, c.url),
                                NetFor(srv, AppendURL(c.url, c.param, marker))) ] ]
    IN  IF f = f THEN f ELSE f

\* The record of one call of a handler: the item, what the handler sent on
\* its output, and for the third handler what each probe returned and the
\* Result it printed.
Handling(s, c, sent, probes, result) ==
    [stage |-> s, c |-> c, sent |-> sent, probes |-> probes, result |-> result]

\* handled with one more call in it.
Logged(h) == handled (+) SetToBag({ h })

Stage1Handler_forwardUnreflected(c, reflected, err) ==
    IF err # Nil THEN <<>>
    ELSE IF Len(reflected) = 0 THEN <<c>>
    ELSE [ i \in 1..Len(reflected) |-> paramCheck(c.url, reflected[i]) ]

Stage1Handler_firstOnly(c, reflected, err) ==
    IF err # Nil THEN <<>>
    ELSE IF Len(reflected) = 0 THEN <<>>
    ELSE << paramCheck(c.url, reflected[1]) >>

\* The first handler: what it sends, in order.  Nothing on an error of
\* checkReflected, nothing when nothing is reflected, else
\* for _, param := range reflected { output <- paramCheck{c.url, param} }
Stage1Handler(c, reflected, err) ==
    IF err # Nil THEN <<>>
    ELSE IF Len(reflected) = 0 THEN <<>>
    ELSE [ i \in 1..Len(reflected) |-> paramCheck(c.url, reflected[i]) ]

\* The handler of the first pool, up to its first send.
Stage1Run(i) ==
    /\ Alive
    /\ workers[1][i].pc = "run"
    /\ LET c == workers[1][i].c
       IN  \E r \in reflections[server][c] :
             LET outs == Stage1Handler(c, r.out, r.err)
             IN  /\ errlog' = IF r.err # Nil
                              THEN errlog \cup { [stage |-> 1, c |-> c, err |-> r.err] }
                              ELSE errlog
                 /\ handled' = Logged(Handling(1, c, outs, <<>>, NoResult))
                 /\ workers' =
                      [workers EXCEPT ![1][i] =
                         IF outs = <<>> THEN Idle
                         ELSE [Idle EXCEPT !.pc = "send", !.c = c, !.pending = outs]]
    /\ UNCHANGED <<call, numWorkers, server, input, inputErr, mainPc, initialChecks, closed,
                   wg, out, results, stderr>>

Stage2Advances_reflectedOnly(wasReflected, isError) == wasReflected

\* if wasReflected || isError { output <- paramCheck{c.url, c.param} }
Stage2Advances(wasReflected, isError) == wasReflected \/ isError

\* The handler of the second pool, up to its send.
Stage2Run(i) ==
    /\ Alive
    /\ workers[2][i].pc = "run"
    /\ LET c == workers[2][i].c
       IN  \E r \in { markerProbes[server][c] } :
                 /\ IF r.err # Nil
                    THEN /\ stderr' = Append(stderr,
                                [msg |-> "error from checkAppend", url |-> c.url,
                                 param |-> c.param, err |-> r.err])
                         /\ errlog' = errlog \cup { [stage |-> 2, c |-> c, err |-> r.err] }
                         /\ handled' = Logged(Handling(2, c, <<>>, <<>>, NoResult))
                         /\ workers' = [workers EXCEPT ![2][i] = Idle]
                    ELSE /\ UNCHANGED <<stderr, errlog>>
                         /\ IF Stage2Advances(r.reflected, r.isError)
                            THEN LET outs == <<paramCheck(c.url, c.param)>>
                                 IN  /\ handled' = Logged(Handling(2, c, outs, <<>>, NoResult))
                                     /\ workers' =
                                          [workers EXCEPT ![2][i] =
                                             [Idle EXCEPT !.pc = "send", !.c = c,
                                                          !.pending = outs]]
                            ELSE /\ handled' = Logged(Handling(2, c, <<>>, <<>>, NoResult))
                                 /\ workers' = [workers EXCEPT ![2][i] = Idle]
    /\ UNCHANGED <<call, numWorkers, server, input, inputErr, mainPc, initialChecks, closed,
                   wg, out, results>>

Accumulate_prepend(output_of_url, wasReflected, char) ==
    IF wasReflected
    THEN SubSeq(output_of_url, 1, 2) \o <<char>>
         \o SubSeq(output_of_url, 3, Len(output_of_url))
    ELSE output_of_url

\* if wasReflected { output_of_url = append(output_of_url, char) }
Accumulate(output_of_url, wasReflected, char) ==
    IF wasReflected THEN Append(output_of_url, char) ELSE output_of_url

RaiseFlag_lastProbe(sqlInjection, isError) == isError

\* if isError { sqlInjection = true }
RaiseFlag(sqlInjection, isError) == IF isError THEN TRUE ELSE sqlInjection

AfterError_break(chars) == <<>>

\* `continue` after the diagnostic: the loop goes on with the characters
\* that are left.
AfterError(chars) == Tail(chars)

\* The third handler's loop over the characters, from `chars` on.
\* probes[n] records what checkAppend returned for the n-th character, diags
\* what the loop writes to os.Stderr.
RECURSIVE CharLoop(_, _, _, _, _, _, _)
CharLoop(srv, c, chars, output_of_url, sqlInjection, probes, diags) ==
    IF chars = <<>>
    THEN [output_of_url |-> output_of_url, sqlInjection |-> sqlInjection,
          probes |-> probes, diags |-> diags]
    ELSE LET char == Head(chars)
             r == checkAppend(c.url, c.param, char, NetFor(srv, c.url),
                              NetFor(srv, AppendURL(c.url, c.param, char)))
             probed == Append(probes, [char |-> char, reflected |-> r.reflected,
                                       isError |-> r.isError, failed |-> r.err # Nil])
         IN  IF r.err # Nil
             THEN CharLoop(srv, c, AfterError(chars), output_of_url, sqlInjection, probed,
                           Append(diags, [msg |-> "error from checkAppend", url |-> c.url,
                                          param |-> c.param, char |-> char, err |-> r.err]))
             ELSE CharLoop(srv, c, Tail(chars),
                           Accumulate(output_of_url, r.reflected, char),
                           RaiseFlag(sqlInjection, r.isError), probed, diags)

\* What the loop comes to for an item of the third pool, likewise.
charLoops ==
    LET f == [ srv \in Servers |->
                [ c \in Items |-> CharLoop(srv, c, charset, <<c.url, c.param>>,
                                           FALSE, <<>>, <<>>) ] ]
    IN  IF f = f THEN f ELSE f

Qualifies_unfilteredOnly(output_of_url, sqlInjection) == Len(output_of_url) > 2

\* if len(output_of_url) > 2 || sqlInjection
Qualifies(output_of_url, sqlInjection) == Len(output_of_url) > 2 \/ sqlInjection

MkResult(output_of_url, sqlInjection) ==
    [URL |-> output_of_url[1], Param |-> output_of_url[2],
     Unfiltered |-> SubSeq(output_of_url, 3, Len(output_of_url)),
     SQLInjection |-> sqlInjection]

\* The handler of the third pool up to the append to results: the loop,
\* then the Result is printed and results is read for the append; or the
\* handler returns with nothing written.
Stage3Run(i) ==
    /\ Alive
    /\ workers[3][i].pc = "run"
    /\ LET c == workers[3][i].c
       IN  \E l \in { charLoops[server][c] } :
             /\ stderr' = stderr \o l.diags
             /\ errlog' = errlog \cup { [stage |-> 3, c |-> c, char |-> l.diags[n].char,
                                         err |-> l.diags[n].err] : n \in DOMAIN l.diags }
             /\ IF Qualifies(l.output_of_url, l.sqlInjection)
                THEN LET result == MkResult(l.output_of_url, l.sqlInjection)
                     IN  /\ out' = Append(out, result)
                         /\ handled' = Logged(Handling(3, c, <<>>, l.probes, result))
                         /\ workers' = [workers EXCEPT ![3][i] =
                                          [Idle EXCEPT !.pc = "append", !.c = c,
                                                       !.result = result, !.seen = results]]
                ELSE /\ UNCHANGED out
                     /\ handled' = Logged(Handling(3, c, <<>>, l.probes, NoResult))
                     /\ workers' = [workers EXCEPT ![3][i] = Idle]
    /\ UNCHANGED <<call, numWorkers, server, input, inputErr, mainPc, initialChecks, closed,
                   wg, results>>

\* results = append(results, result): the write of what was read plus the
\* Result; no lock is held between the read and the write.
Stage3Append(i) ==
    /\ Alive
    /\ workers[3][i].pc = "append"
    /\ results' = Append(workers[3][i].seen, workers[3][i].result)
    /\ workers' = [workers EXCEPT ![3][i] = Idle]
    /\ UNCHANGED <<call, numWorkers, server, input, inputErr, mainPc, initialChecks, closed,
                   wg, out, stderr, errlog, handled>>

Next ==
    \/ MainSubmit
    \/ MainScanEnd
    \/ MainDone
    \/ \E i \in 1..numWorkers : Receive1(i)
    \/ \E s \in Stages, i \in 1..numWorkers : WorkerExit(s, i)
    \/ \E s \in Stages : PoolClose(s)
    \/ \E s \in 1..2, i \in 1..numWorkers, j \in 1..numWorkers : Send(s, i, j)
    \/ \E i \in 1..numWorkers : Stage1Run(i)
    \/ \E i \in 1..numWorkers : Stage2Run(i)
    \/ \E i \in 1..numWorkers : Stage3Run(i)
    \/ \E i \in 1..numWorkers : Stage3Append(i)

Spec == Init /\ [][Next]_vars

\* The probe functions on their own: the pipeline is not started.
InitFn ==
    /\ call \in ReflectedCalls \cup AppendCalls \cup RequestCalls
    /\ numWorkers = 1
    /\ server = S_echo
    /\ input = [lines |-> <<>>, pos |-> 0]
    /\ inputErr = FALSE
    /\ mainPc = "finished"
    /\ initialChecks = <<>>
    /\ closed = [ch \in Chans |-> TRUE]
    /\ wg = [s \in Stages |-> 0]
    /\ workers = [s \in Stages |-> [i \in 1..1 |-> [Idle EXCEPT !.pc = "done"]]]
    /\ out = <<>>
    /\ results = <<>>
    /\ stderr = <<>>
    /\ errlog = {}
    /\ handled = EmptyBag

Applied(ret) == [fn |-> call.fn, phase |-> "done", in |-> call.in, ret |-> ret]

ApplyCheckReflected ==
    /\ call.fn = "checkReflected" /\ call.phase = "ready"
    /\ call' = Applied(checkReflected(call.in.targetURL, call.in.net, call.in.order))
    /\ UNCHANGED pipeVars

ApplyCheckAppend ==
    /\ call.fn = "checkAppend" /\ call.phase = "ready"
    /\ call' = Applied(checkAppend(call.in.targetURL, call.in.param, call.in.suffix,
                                   call.in.baseNet, call.in.testNet))
    /\ UNCHANGED pipeVars

ApplyDoRequest ==
    /\ call.fn = "doRequestWithRetries" /\ call.phase = "ready"
    /\ call' = Applied(doRequestWithRetries("GET", call.in.urlStr, call.in.net, MaxRetries))
    /\ UNCHANGED pipeVars

NextFn == ApplyCheckReflected \/ ApplyCheckAppend \/ ApplyDoRequest

SpecFn == InitFn /\ [][NextFn]_vars

(***************************************************************************)
(* Properties of the probe functions (checked under SpecFn)                *)
(***************************************************************************)

FnDone(name) == call.fn = name /\ call.phase = "done"

\* The response the applied checkReflected was given by its one request.
ReflectedFetch ==
    doRequestWithRetries("GET", call.in.targetURL, call.in.net, MaxRetries)

\* Some value written for the key in the URL's query is a substring of body.
SomeValueIn(u, key, body) ==
    \E i \in DOMAIN u.query : u.query[i].k = key /\ Contains(body, u.query[i].v)

OnlyEmptyValues(u, key) ==
    \A i \in DOMAIN u.query : u.query[i].k = key => u.query[i].v = <<>>

\* C1 as stated: checkReflected never reports a query parameter whose value
\* is the empty string (such as pp in ?pp=), whatever the response.
C1_EmptyValueNeverReported ==
    FnDone("checkReflected") =>
        \A key \in QueryKeys(call.in.targetURL) :
            OnlyEmptyValues(call.in.targetURL, key) => key \notin Range(call.ret.out)

\* C1 amended: when checkReflected examines a body (the request and the read
\* succeeded, the response is neither 3xx nor non-HTML), it reports a
\* parameter exactly when one of its values is a substring of the body, and
\* the empty value is a substring of every body: a parameter with an empty
\* value is then always reported.
C1_ReportedIffValueInBody ==
    (FnDone("checkReflected") /\ call.ret.err = Nil /\ ~SkipResponse(ReflectedFetch.resp)) =>
        \A key \in QueryKeys(call.in.targetURL) :
            /\ key \in Range(call.ret.out)
                   <=> SomeValueIn(call.in.targetURL, key, ReflectedFetch.resp.Body)
            /\ ~OnlyEmptyValues(call.in.targetURL, key) \/ key \in Range(call.ret.out)

\* ?pp= against a body that holds nothing of the query: pp is reported.
C1_Witness ==
    /\ FnDone("checkReflected")
    /\ call.in.targetURL = U_pp
    /\ ReflectedFetch.err = Nil /\ ReflectedFetch.resp.Body = <<"<">>
    /\ call.ret = [out |-> <<"pp">>, err |-> Nil]

\* The two requests of the applied checkAppend.
AppendBase ==
    doRequestWithRetries("GET", call.in.targetURL, call.in.baseNet, MaxRetries)

AppendTest ==
    doRequestWithRetries("GET",
                         AppendURL(call.in.targetURL, call.in.param, call.in.suffix),
                         call.in.testNet, MaxRetries)

Fingerprints ==
    UNION { Range(dbErrorPatterns[label]) : label \in DOMAIN dbErrorPatterns }

\* C2: checkAppend's injectionSuspected is true iff the test body contains a
\* fingerprint of the table and not both the baseline and the test status
\* are >= 500.
C2_InjectionFlag ==
    (FnDone("checkAppend") /\ call.ret.err = Nil) =>
        (call.ret.isError
            <=> /\ \E f \in Fingerprints : Contains(AppendTest.resp.Body, f)
                /\ ~(AppendBase.resp.StatusCode >= 500 /\ AppendTest.resp.StatusCode >= 500))

\* Baseline 500 and test 500 with ORA- in the test body: the flag is false.
C2_Witness ==
    /\ FnDone("checkAppend") /\ call.ret.err = Nil
    /\ AppendBase.resp.StatusCode = 500 /\ AppendTest.resp.StatusCode = 500
    /\ Contains(AppendTest.resp.Body, <<"O","R","A","-">>)
    /\ ~call.ret.isError

AttemptFailed(i) == call.in.net[i].err # Nil

\* What C9 says of every call but its last clause.
RetryDiscipline ==
    /\ call.ret.attempts <= 3
    /\ call.ret.err = Nil =>
          /\ call.ret.attempts \in 1..3
          /\ ~AttemptFailed(call.ret.attempts)
          /\ call.ret.resp = call.in.net[call.ret.attempts].resp
    /\ \A n \in 1..(call.ret.attempts - 1) :
          /\ AttemptFailed(n)
          /\ n \in DOMAIN call.ret.sleeps /\ call.ret.sleeps[n] = n

\* C9 as stated: at most 3 attempts, the first response is returned at once,
\* a retry follows a transport failure only, attempt n and n+1 are n seconds
\* apart, and an error is returned only after all 3 attempts failed.
C9_ErrorOnlyAfterThreeAttempts ==
    FnDone("doRequestWithRetries") =>
        /\ RetryDiscipline
        /\ call.ret.err # Nil =>
              (call.ret.attempts = 3 /\ \A i \in 1..3 : AttemptFailed(i))

\* C9 amended: as stated, except that a URL from which no request can be
\* built returns the error of http.NewRequest at once, with no attempt.
C9_RetryOrNoRequest ==
    FnDone("doRequestWithRetries") =>
        /\ RetryDiscipline
        /\ call.ret.err # Nil =>
              \/ (call.ret.attempts = 3 /\ \A i \in 1..3 : AttemptFailed(i))
              \/ (call.in.urlStr.malformed /\ call.ret.attempts = 0
                    /\ call.ret.sleeps = <<>> /\ call.ret.err = ParseErr)

\* Two failures, then a response: three attempts, 1 s and 2 s apart.
C9_Witness ==
    /\ FnDone("doRequestWithRetries")
    /\ AttemptFailed(1) /\ AttemptFailed(2) /\ ~AttemptFailed(3)
    /\ call.ret.err = Nil /\ call.ret.attempts = 3 /\ call.ret.sleeps = <<1, 2>>

\* C10: when all retries are exhausted the one error returned names the URL
\* requested and the retry count and carries the last transport failure.
C10_ErrorNamesUrlAndCause ==
    (FnDone("doRequestWithRetries") /\ ~call.in.urlStr.malformed
        /\ \A i \in 1..3 : AttemptFailed(i)) =>
        /\ call.ret.err # Nil
        /\ "args" \in DOMAIN call.ret.err
        /\ call.ret.err.args.retries = 3
        /\ call.ret.err.args.cause = call.in.net[3].err
        /\ "url" \in DOMAIN call.ret.err.args
        /\ call.ret.err.args.url = call.in.urlStr

(***************************************************************************)
(* Properties of the pipeline (checked under Spec and FairSpec)            *)
(***************************************************************************)

\* The scheduler runs a goroutine that can take a step, and every request
\* returns: some step is taken as long as one is possible.
FairSpec == Spec /\ WF_vars(Next)

\* The calls of the s-th handler made so far.
HandledAt(s) == { h \in BagToSet(handled) : h.stage = s }

RECURSIVE Calls(_)
Calls(hs) ==
    IF hs = {} THEN 0
    ELSE LET h == CHOOSE x \in hs : TRUE
         IN  CopiesIn(h, handled) + Calls(hs \ { h })

RECURSIVE Sent(_)
Sent(hs) ==
    IF hs = {} THEN 0
    ELSE LET h == CHOOSE x \in hs : TRUE
         IN  CopiesIn(h, handled) * Len(h.sent) + Sent(hs \ { h })

IsResult(r) == "URL" \in DOMAIN r

\* The Results written to the result stream, in the order written.
Emitted == SelectSeq(out, IsResult)

\* The characters whose probe returned reflected, and whether some probe
\* returned isError, for one call of the third handler.
Survived(h) ==
    { h.probes[n].char : n \in { m \in DOMAIN h.probes :
                                   ~h.probes[m].failed /\ h.probes[m].reflected } }

Suspected(h) ==
    \E n \in DOMAIN h.probes : ~h.probes[n].failed /\ h.probes[n].isError

\* C4: the third handler writes a Result for an item exactly when, over all
\* thirteen probes, some character was reflected or some probe reported a
\* database error; the Result's flag is set exactly when some probe reported
\* one (a later probe does not reset it); and nothing else reaches the
\* result stream: the Results written are those of the calls that qualified.
C4_EmitIffQualifies ==
    /\ \A h \in HandledAt(3) :
         /\ Len(h.probes) = Len(charset)
         /\ IsResult(h.result) <=> (Survived(h) # {} \/ Suspected(h))
         /\ IsResult(h.result) =>
              /\ h.result.SQLInjection = Suspected(h)
              /\ h.result.URL = h.c.url /\ h.result.Param = h.c.param
    /\ Range(Emitted) = { h.result : h \in { x \in HandledAt(3) : IsResult(x.result) } }
    /\ Len(Emitted) = Calls({ h \in HandledAt(3) : IsResult(h.result) })

\* A Result written for the flag alone, by a call in which the flag was
\* raised before the last probe, and the run is over.
C4_Witness ==
    /\ mainPc = "finished"
    /\ \E h \in HandledAt(3) :
         /\ IsResult(h.result) /\ h.result.Unfiltered = <<>> /\ h.result.SQLInjection
         /\ h.result \in Range(Emitted)
    /\ \E h \in HandledAt(2) : h.sent # <<>>

\* C5: in every Result written, Unfiltered lists exactly the characters
\* whose probe returned reflected, each once, in the order of the charset,
\* and the probes of a call are the thirteen characters in that order; for
\* one worker or several.
C5_UnfilteredInCharsetOrder ==
    /\ \A h \in HandledAt(3) :
         /\ [ n \in DOMAIN h.probes |-> h.probes[n].char ] = charset
         /\ IsResult(h.result) =>
              h.result.Unfiltered = SelectSeq(charset, LAMBDA ch : ch \in Survived(h))
    /\ \A r \in Range(Emitted) : \E h \in HandledAt(3) : h.result = r

\* Two workers, two Results written, one of them with some but not all of
\* the characters.
C5_Witness ==
    /\ numWorkers = 2
    /\ Len(Emitted) = 2
    /\ \E n \in DOMAIN Emitted :
         /\ Len(Emitted[n].Unfiltered) >= 2
         /\ Len(Emitted[n].Unfiltered) < Len(charset)
         /\ Emitted[n].Unfiltered # SubSeq(charset, 1, Len(Emitted[n].Unfiltered))

\* C6: no Result is written, and none is collected, for a URL that has no
\* query parameters.
C6_NoResultWithoutQuery ==
    /\ \A r \in Range(Emitted) : r.URL.query # <<>>
    /\ \A r \in Range(results) : r.URL.query # <<>>
    /\ \A s \in 2..3 : \A h \in HandledAt(s) : h.c.url.query # <<>>

\* A URL without a query was read and handled by the first pool of a host
\* that answers with an HTML page, next to a URL that got a Result, and
\* the run is over.
C6_Witness ==
    /\ mainPc = "finished"
    /\ server.up /\ server.ct = text_html /\ server.status = 200
    /\ \E n \in DOMAIN input.lines :
         /\ input.lines[n].query = <<>> /\ ~input.lines[n].malformed
         /\ \E h \in HandledAt(1) : h.c.url = input.lines[n]
    /\ Len(Emitted) >= 1

\* Every item that was submitted has been handled, and every item a
\* handler sent has been handled by the next pool: each call of the third
\* handler dropped its item or wrote its Result.
AllTerminal ==
    /\ initialChecks = <<>>
    /\ \A s \in Stages : \A i \in 1..numWorkers : workers[s][i].pc = "done"
    /\ \A ch \in Chans : closed[ch]
    /\ input.pos = Len(input.lines)
    /\ Calls(HandledAt(1)) = Len(input.lines)
    /\ Calls(HandledAt(2)) = Sent(HandledAt(1))
    /\ Calls(HandledAt(3)) = Sent(HandledAt(2))
    /\ Len(Emitted) = Calls({ h \in HandledAt(3) : IsResult(h.result) })

\* C7: once initialChecks is closed, done is eventually closed and main
\* goes on past `<-done`; when done is closed every submitted item has
\* been dropped or has had its Result written, and no Result is written
\* from then on.
C7_ShutdownLiveness ==
    /\ closed["initialChecks"] ~> (mainPc = "finished")
    /\ [](closed["done"] => AllTerminal)
    /\ [][closed["done"] => Emitted' = Emitted]_vars

\* main is past `<-done` after a run of two workers in which one item was
\* dropped and one had its Result written.
C7_Witness ==
    /\ mainPc = "finished"
    /\ numWorkers = 2
    /\ Len(input.lines) = 2
    /\ Len(Emitted) = 1
    /\ \E h \in HandledAt(1) : h.sent = <<>>

\* A diagnostic on os.Stderr for this item and this error.
Diagnosed(e) ==
    \E n \in DOMAIN stderr :
       /\ "url" \in DOMAIN stderr[n]
       /\ stderr[n].url = e.c.url
       /\ stderr[n].err = e.err
       /\ e.stage > 1 => stderr[n].param = e.c.param

\* C8: an error of a handler's probe leaves a diagnostic on os.Stderr for
\* the item, at each of the three stages; nothing but Results and the
\* closing message is on the result stream; and a first- or second-stage
\* item whose probe failed is sent no further.
C8_PerItemErrorDiagnosed ==
    /\ \A e \in errlog : Diagnosed(e)
    /\ \A n \in DOMAIN out : IsResult(out[n]) \/ out[n] = NoneFound
    /\ \A e \in { x \in errlog : x.stage < 3 } :
         \A h \in HandledAt(e.stage) : h.c = e.c => h.sent = <<>>

\* No line occurs twice in the input.
DistinctLines ==
    \A m, n \in DOMAIN input.lines : m # n => input.lines[m] # input.lines[n]

\* C11: checkReflected reports each parameter at most once, also for a
\* parameter that occurs several times in the query: a call of the first
\* handler sends at most one item for a parameter, and for an input of
\* distinct lines at most one Result is written for a URL and a parameter.
C11_OneResultPerParam ==
    /\ \A h \in HandledAt(1) :
         \A m, n \in DOMAIN h.sent : m # n => h.sent[m].param # h.sent[n].param
    /\ DistinctLines =>
         \A m, n \in DOMAIN Emitted :
            m # n => <<Emitted[m].URL, Emitted[m].Param>> # <<Emitted[n].URL, Emitted[n].Param>>

\* The test response of the applied checkAppend as a text/html response
\* that is no redirect, with the same body.
AsHtml(resp) ==
    MkResp(IF resp.StatusCode \in 300..399 THEN 200 ELSE resp.StatusCode,
           text_html, resp.Body, resp.readErr)

\* C12: checkAppend returns reflected exactly when the test status is not
\* 3xx, the Content-Type is absent or contains "html", and the test body
\* contains the suffix; and isError is what the same call returns for the
\* same body served as text/html and not as a redirect.
C12_ReflectedGate ==
    (FnDone("checkAppend") /\ call.ret.err = Nil) =>
        LET resp == AppendTest.resp
        IN  /\ call.ret.reflected
                 <=> /\ resp.StatusCode \notin 300..399
                     /\ (resp.ContentType = <<>> \/ Contains(resp.ContentType, html))
                     /\ Contains(resp.Body, call.in.suffix)
            /\ call.ret.isError
                 = checkAppend(call.in.targetURL, call.in.param, call.in.suffix,
                               call.in.baseNet, NetOK(AsHtml(resp))).isError

\* A JSON response that holds the suffix and a fingerprint: not reflected,
\* flagged.
C12_Witness ==
    /\ FnDone("checkAppend") /\ call.ret.err = Nil
    /\ AppendTest.resp.ContentType = application_json
    /\ AppendTest.resp.StatusCode = 200
    /\ Contains(AppendTest.resp.Body, call.in.suffix)
    /\ call.ret.isError /\ ~call.ret.reflected

\* A host that echoes the values of the query as they are and never fails.
EchoServer(srv) ==
    /\ srv.up /\ srv.echo
    /\ srv.filtered = {} /\ srv.sqlChars = {} /\ srv.dropped = {}

\* The Results of a run over the lines, computed from the lines alone: each
\* line through the three handlers, with one chosen order for each range
\* over a query.
ResultsFor(srv, lines) ==
    LET first(u) ==
            LET c == paramCheck(u, "")
                r == CHOOSE x \in reflections[srv][c] : TRUE
            IN  Range(Stage1Handler(c, r.out, r.err))
        second(c) ==
            LET r == markerProbes[srv][c]
            IN  r.err = Nil /\ Stage2Advances(r.reflected, r.isError)
        third(c) ==
            LET l == charLoops[srv][c]
            IN  IF Qualifies(l.output_of_url, l.sqlInjection)
                THEN { MkResult(l.output_of_url, l.sqlInjection) }
                ELSE {}
    IN  UNION { UNION { third(c) : c \in { d \in first(lines[n]) : second(d) } }
                : n \in DOMAIN lines }

\* C13: against a host that echoes the query values and never fails, the
\* set of Results a finished run has written is a function of the input
\* lines: the same for every number of workers, every schedule and every
\* order of the ranges over the queries.
C13_SameResultSet ==
    (mainPc = "finished" /\ EchoServer(server)) =>
        Range(Emitted) = ResultsFor(server, input.lines)

\* A finished run of two workers over ?y=ab&x=1 on such a host, in which
\* the Result for x was written before the one for y.
C13_Witness ==
    /\ mainPc = "finished" /\ EchoServer(server) /\ numWorkers = 2
    /\ input.lines = << U_yx >>
    /\ Len(Emitted) = 2
    /\ Emitted[1].Param = "x" /\ Emitted[2].Param = "y"

\* The s-th pool has nothing left to do: its input is closed and empty and
\* each of its workers has left its loop.
Drained(s) ==
    /\ closed[InChan(s)]
    /\ s = 1 => (initialChecks = <<>> /\ mainPc # "scan")
    /\ wg[s] = 0
    /\ \A i \in 1..numWorkers : workers[s][i].pc = "done"

\* C14: the output of a pool is closed only when its input is closed and
\* empty and every worker of the pool has returned; a worker at a send
\* never finds its output closed; a closed channel stays closed, and a step
\* closes the output of a pool only if it was open and the pool was done.
C14_CloseCascade ==
    /\ [](\A s \in Stages : closed[OutChan(s)] => Drained(s))
    /\ [](\A s \in Stages : \A i \in 1..numWorkers :
             workers[s][i].pc = "send" => ~closed[OutChan(s)])
    /\ [][\A ch \in Chans : closed[ch] => closed'[ch]]_vars
    /\ [][\A s \in Stages :
             closed'[OutChan(s)] # closed[OutChan(s)]
                => (~closed[OutChan(s)] /\ Drained(s))]_vars

\* done is closed after a run of two workers in which an item went
\* through the three pools.
C14_Witness ==
    /\ closed["done"] /\ numWorkers = 2
    /\ HandledAt(3) # {}
    /\ \A s \in Stages : closed[OutChan(s)]

\* The workers of the s-th pool that hold an item their handler has not
\* dealt with yet, and the items the handlers of the pool have still to send.
Running(s) == Cardinality({ i \in 1..numWorkers : workers[s][i].pc = "run" })

RECURSIVE Unsent(_, _)
Unsent(s, n) ==
    IF n = 0 THEN 0 ELSE Len(workers[s][n].pending) + Unsent(s, n - 1)

\* The items that have reached the s-th pool: the lines submitted, or what
\* the handlers of the pool before have sent.
Arrived(s) ==
    IF s = 1 THEN input.pos - Len(initialChecks)
    ELSE Sent(HandledAt(s - 1)) - Unsent(s - 1, numWorkers)

\* C15: every item put on the input of a pool is taken by one worker of
\* the pool and handled once: the items that reached a pool are those its
\* workers hold plus those its handlers have dealt with, none lost and none
\* twice; a worker holds an item only inside its handler, and the counts of
\* handled items never go down.
C15_SingleOwnership ==
    /\ [](\A s \in Stages : Arrived(s) = Running(s) + Calls(HandledAt(s)))
    /\ [](\A s \in Stages : \A i \in 1..numWorkers :
             (workers[s][i].c # NoItem) <=> (workers[s][i].pc \in { "run", "send", "append" }))
    /\ [][\A s \in Stages :
             /\ Calls(HandledAt(s))' >= Calls(HandledAt(s))
             /\ Arrived(s)' >= Arrived(s)]_vars

\* Two workers of the second pool hold an item each at the same time, and
\* the two items are the same parameter of the same URL.
C15_Witness ==
    /\ numWorkers = 2
    /\ workers[2][1].pc = "run" /\ workers[2][2].pc = "run"
    /\ workers[2][1].c = workers[2][2].c

\* The workers of the third pool between the read and the write of
\* `results = append(results, result)`.
Appending == { i \in 1..numWorkers : workers[3][i].pc = "append" }

\* C16: no worker writes a variable another worker can read or write at
\* the same time, and no update of the results slice is lost: at most one
\* worker is inside the append, and every Result written is in results
\* once its worker is past the append.
C16_NoSharedMutableState ==
    /\ Cardinality(Appending) <= 1
    /\ Len(results) + Cardinality(Appending) = Len(Emitted)
    /\ mainPc = "finished" => Len(results) = Len(Emitted)

\* The items the workers of the second pool have received.
ReceivedAt2 ==
    { h.c : h \in HandledAt(2) }
    \cup { workers[2][i].c : i \in { j \in 1..numWorkers : workers[2][j].pc = "run" } }

\* The parameter of the item is a key of the query of its URL, and a value
\* given for it is in the body the host returns for the URL.
ReflectedParam(c) ==
    /\ c.param \in QueryKeys(c.url)
    /\ SomeValueIn(c.url, c.param, Respond(server, c.url).Body)

\* C17: every item a worker of the second pool receives has a non-empty
\* param, which is a parameter of its URL with a value found in the body of
\* the first response; also for a URL whose query has an empty key.
C17_NonEmptyReflectedParam ==
    \A c \in ReceivedAt2 : c.param # "" /\ ReflectedParam(c)

\* What checkAppend returns for the item and the marker on this host.
MarkerProbe(c) == markerProbes[server][c]

\* The items that have gone on from the second pool, or have a Result.
Advanced ==
    { h.c : h \in { x \in HandledAt(2) : x.sent # <<>> } }
    \cup { h.c : h \in HandledAt(3) }
    \cup { paramCheck(Emitted[n].URL, Emitted[n].Param) : n \in DOMAIN Emitted }

\* C18 as stated: an item goes on from the second pool to the third only
\* if the probe with the marker returned no error and reported the marker
\* reflected; an item whose marker was not reflected gets no Result.
C18_AdvancesOnlyIfMarkerReflected ==
    \A c \in Advanced : MarkerProbe(c).err = Nil /\ MarkerProbe(c).reflected

\* C18 amended: an item goes on from the second pool exactly when the probe
\* with the marker returned no error and reported the marker reflected or
\* a database error; it is sent on once and unchanged; every other item is
\* dropped there and gets no Result.
C18_AdvancesIfReflectedOrFlagged ==
    /\ \A h \in HandledAt(2) :
         /\ (h.sent # <<>>)
               <=> /\ MarkerProbe(h.c).err = Nil
                   /\ (MarkerProbe(h.c).reflected \/ MarkerProbe(h.c).isError)
         /\ h.sent \in { <<>>, << h.c >> }
    /\ \A c \in Advanced :
         /\ MarkerProbe(c).err = Nil
         /\ MarkerProbe(c).reflected \/ MarkerProbe(c).isError

\* An item whose marker was not reflected but whose probe met a database
\* error has gone on and has its Result.
C18_Witness ==
    \E n \in DOMAIN Emitted :
       LET c == paramCheck(Emitted[n].URL, Emitted[n].Param)
       IN  /\ MarkerProbe(c).err = Nil
           /\ ~MarkerProbe(c).reflected /\ MarkerProbe(c).isError
           /\ \E h \in HandledAt(2) : h.c = c /\ h.sent = << c >>

\* What checkAppend returns for the item and the n-th character on this
\* host.
charProbes ==
    LET f == [ srv \in Servers |->
                [ c \in Items |->
                    [ n \in DOMAIN charset |->
                        checkAppend(c.url, c.param, charset[n], NetFor(srv, c.url),
                                    NetFor(srv, AppendURL(c.url, c.param, charset[n]))) ] ] ]
    IN  IF f = f THEN f ELSE f

CharProbe(c, n) == charProbes[server][c][n]

\* C19: a call of the third handler probes each of the thirteen characters
\* once, in the order of the charset, whether or not an earlier probe
\* returned an error; a probe that returned an error leaves a diagnostic
\* and adds neither its character nor the flag; what the other probes
\* returned is kept, and the Result is written if one of them qualifies.
C19_ErrorSkipsOneCharacter ==
    \A h \in HandledAt(3) :
       /\ DOMAIN h.probes = DOMAIN charset
       /\ \A n \in DOMAIN h.probes :
            LET r == CharProbe(h.c, n)
            IN  /\ h.probes[n] = [char |-> charset[n], reflected |-> r.reflected,
                                  isError |-> r.isError, failed |-> r.err # Nil]
                /\ r.err # Nil =>
                     /\ IsResult(h.result) => charset[n] \notin Range(h.result.Unfiltered)
                     /\ \E m \in DOMAIN stderr :
                          /\ "char" \in DOMAIN stderr[m]
                          /\ stderr[m].char = charset[n] /\ stderr[m].url = h.c.url
                          /\ stderr[m].param = h.c.param /\ stderr[m].err = r.err
                /\ (r.err = Nil /\ r.reflected) =>
                     (IsResult(h.result) /\ charset[n] \in Range(h.result.Unfiltered))
                /\ (r.err = Nil /\ r.isError) =>
                     (IsResult(h.result) /\ h.result.SQLInjection)
       /\ IsResult(h.result) => h.result \in Range(Emitted)

\* The probe of the third character failed, the fifth was reflected, and
\* the Result with the fifth character is written.
C19_Witness ==
    \E h \in HandledAt(3) :
       /\ h.probes[3].failed
       /\ h.probes[5].reflected
       /\ IsResult(h.result) /\ charset[5] \in Range(h.result.Unfiltered)
       /\ h.result \in Range(Emitted)

\* main has returned or has exited.
Completed == mainPc \in { "finished", "exit1" }

\* C20: in every state short of completion some goroutine can take a step,
\* for one worker or several and for inputs shorter and longer than the
\* buffer; initialChecks never holds more than numWorkers items, and no
\* worker of the third pool is ever at a send.
C20_DeadlockFree ==
    /\ Completed \/ ENABLED Next
    /\ Len(initialChecks) <= numWorkers
    /\ \A i \in 1..numWorkers : workers[3][i].pc # "send" /\ workers[3][i].pending = <<>>

\* main is blocked at its send, the buffer being full and a line still to
\* submit; the worker of the first pool can receive.
C20_Witness ==
    /\ mainPc = "scan" /\ input.pos < Len(input.lines)
    /\ numWorkers = 1
    /\ Len(initialChecks) = numWorkers
    /\ workers[1][1].pc = "recv"
    /\ ~ENABLED MainSubmit

====
